---- MODULE Spec2Model ----
(***************************************************************************)
(* Model of core/src/quic_connection.rs: QuicConnection (lazy connect,     *)
(* staleness marker, reconnect under the write lock, send_transaction) and *)
(* QuicConnectionPool (one tokio Semaphore per connection, select_all over *)
(* the acquire_owned futures, PooledConnection guard).                     *)
(*                                                                         *)
(* A session (quinn::Connection) is represented by its stable_id, a        *)
(* positive number that is fresh for every established session; 0 stands   *)
(* for Option::None.                                                       *)
(***************************************************************************)
EXTENDS Integers, Sequences, FiniteSets, TLC

\* ---- configuration of the pool under verification -----------------------
nb_connection == 2
max_number_of_unistream_connection == 1
connection_retry_count == 2

\* ---- bounds of the model -------------------------------------------------
NumTasks == 3
ConnTasks == 2
MaxCalls == 3
MaxSessions == 2
MaxTimeouts == 2
MaxRetryCount == 2

Tasks == 1..NumTasks
Conns == 1..nb_connection
None == 0

VARIABLES
    connection,          \* [Conns -> 0..]   installed session (0 = None)
    last_stable_id,      \* [Conns -> 0..]   AtomicU64 staleness marker
    timeout_counters,    \* [Conns -> Nat]   AtomicU64
    has_connected_once,  \* [Conns -> BOOLEAN]
    exit_signal,         \* BOOLEAN, shared by all connections
    wlock,               \* [Conns -> Tasks \cup {0}] holder of RwLock write guard
    transactions_in_sending_semaphore,
                         \* [Conns -> [permits, waiters, assigned, closed]]
    next_id,             \* [Conns -> Nat]   next fresh stable_id
    mock,                \* behaviour of the transport: "any", "ok", "retry_once"
    pc,                  \* [Tasks -> control point]
    self_conn,           \* [Tasks -> Conns \cup {0}] connection the call runs on
    caller,              \* [Tasks -> who called get_connection]
    l_last,              \* [Tasks -> local last_stable_id of get_connection]
    l_conn,              \* [Tasks -> local conn / connection]
    ret,                 \* [Tasks -> value returned by get_connection]
    sel,                 \* [Tasks -> next future select_all polls]
    permit,              \* [Tasks -> index of the permit held, 0 = none]
    connection_params,   \* [connection_retry_count |-> Nat], QuicConnectionParameters
    iter,                \* [Tasks -> iterations left in the loop of send_transaction]
    budget,              \* calls the tasks may still start
    todo,                \* [Tasks -> calls the task makes, <<"any">> = any call]
    \* history variables (observations of a counting mock transport)
    result,              \* [Tasks -> outcome of the task's last send_transaction]
    reported,            \* [Conns -> set of ids stored into last_stable_id]
    none_connects_done,  \* [Conns -> BOOLEAN] a no-session connect completed
    timeouts_seen,       \* [Conns -> Nat] timeouts answered before the first reset
    resets_seen,         \* [Conns -> BOOLEAN] reset_timeouts erased a count
    gc_bad,              \* [Tasks -> id installed and already reported at call start]
    gc_connected,        \* [Tasks -> BOOLEAN] this get_connection called connect
    released,            \* BOOLEAN, some guard has been dropped
    ops                  \* [Tasks -> calls made by the task's send_transaction]

connVars == <<connection, last_stable_id, timeout_counters, has_connected_once,
              exit_signal, wlock, next_id, mock>>
poolVars == <<transactions_in_sending_semaphore, sel, permit>>
localVars == <<self_conn, caller, l_last, l_conn, ret>>
histVars == <<result, reported, none_connects_done, timeouts_seen, resets_seen,
              gc_bad, gc_connected, released>>
loopVars == <<connection_params, iter, ops>>
vars == <<connVars, poolVars, pc, localVars, budget, todo, histVars, loopVars>>

\* ---- tokio::sync::Semaphore (fair, FIFO waiters) -------------------------
NewSemaphore(n) ==
    [permits |-> n, waiters |-> <<>>, assigned |-> {}, closed |-> FALSE]

InSeq(s, x) == \E i \in 1..Len(s) : s[i] = x

RemoveWaiter(s, t) == SelectSeq(s, LAMBDA u : u # t)

\* a released permit goes to the oldest waiter, else back to the counter
AddPermit(s) ==
    IF s.waiters # <<>>
    THEN [s EXCEPT !.waiters = Tail(@), !.assigned = @ \cup {Head(s.waiters)}]
    ELSE [s EXCEPT !.permits = @ + 1]

\* the Acquire future of task t is dropped before it completed
DropAcquire(s, t) ==
    IF t \in s.assigned
    THEN AddPermit([s EXCEPT !.assigned = @ \ {t}])
    ELSE [s EXCEPT !.waiters = RemoveWaiter(@, t)]

\* poll of the Acquire future of task t: "ready", "error" or "pending"
PollAcquire(s, t) ==
    IF s.closed THEN "error"
    ELSE IF t \in s.assigned THEN "ready"
    ELSE IF ~InSeq(s.waiters, t) /\ s.permits > 0 THEN "ready"
    ELSE "pending"

\* state of the semaphore after the poll
AfterPoll(s, t) ==
    IF s.closed THEN s
    ELSE IF t \in s.assigned THEN [s EXCEPT !.assigned = @ \ {t}]
    ELSE IF InSeq(s.waiters, t) THEN s
    ELSE IF s.permits > 0 THEN [s EXCEPT !.permits = @ - 1]
    ELSE [s EXCEPT !.waiters = Append(@, t)]

\* ---- the transport (mock) -------------------------------------------------
\* "any": every operation may have every outcome; "ok": every operation
\* succeeds; "retry_once": the first stream operation is answered with
\* ConnectionError{retry: true}, every other operation succeeds
StreamOutcomes ==
    IF mock = "ok" THEN {"ok"}
    ELSE IF mock = "retry_once"
         THEN (IF \A c \in Conns : reported[c] = {} THEN {"retry"} ELSE {"ok"})
    ELSE {"ok", "retry", "noretry", "timeout"}

ConnectOutcomes ==
    IF mock = "any" THEN {TRUE, FALSE} ELSE {TRUE}

\* ---- construction ----------------------------------------------------------
\* QuicConnection::new
InitConn ==
    /\ connection = [c \in Conns |-> None]
    /\ last_stable_id = [c \in Conns |-> 0]
    /\ timeout_counters = [c \in Conns |-> 0]
    /\ has_connected_once = [c \in Conns |-> FALSE]
    /\ exit_signal = FALSE
    /\ wlock = [c \in Conns |-> 0]
    /\ next_id = [c \in Conns |-> 1]

\* QuicConnectionPool::new
InitPool ==
    /\ transactions_in_sending_semaphore =
           [c \in Conns |-> NewSemaphore(max_number_of_unistream_connection)]
    /\ sel = [t \in Tasks |-> 0]
    /\ permit = [t \in Tasks |-> 0]

InitTasks ==
    /\ pc = [t \in Tasks |-> "idle"]
    /\ self_conn = [t \in Tasks |-> 0]
    /\ caller = [t \in Tasks |-> "none"]
    /\ l_last = [t \in Tasks |-> 0]
    /\ l_conn = [t \in Tasks |-> None]
    /\ ret = [t \in Tasks |-> None]
    /\ iter = [t \in Tasks |-> 0]

\* what one send_transaction call has invoked so far
NoOps == [get_connection |-> 0, open_unistream |-> 0, write_all |-> 0]

InitHist ==
    /\ result = [t \in Tasks |-> "none"]
    /\ reported = [c \in Conns |-> {}]
    /\ none_connects_done = [c \in Conns |-> FALSE]
    /\ timeouts_seen = [c \in Conns |-> 0]
    /\ resets_seen = [c \in Conns |-> FALSE]
    /\ gc_bad = [t \in Tasks |-> 0]
    /\ gc_connected = [t \in Tasks |-> FALSE]
    /\ released = FALSE
    /\ ops = [t \in Tasks |-> NoOps]

Init ==
    /\ InitConn /\ InitPool /\ InitTasks /\ InitHist
    /\ connection_params = [connection_retry_count |-> connection_retry_count]
    /\ mock = "any"
    /\ budget = MaxCalls
    /\ todo = [t \in Tasks |-> <<"any">>]

\* ---- the callers -------------------------------------------------------------
\* a task either makes any call (<<"any">>) or the calls of its script, in order
MayCall(t, op) == todo[t] # <<>> /\ Head(todo[t]) \in {op, "any"}

Advance(script) == IF Head(script) = "any" THEN script ELSE Tail(script)

\* ---- QuicConnectionUtils::connect (connect primitive) ---------------------
\* the answer of the primitive: a fresh session (its id) when one of its
\* attempts succeeds, None when the attempts are used up or when it finds the
\* exit flag set
ConnectResults(retry_count, exit, fresh) ==
    IF retry_count = 0 \/ exit THEN {None}
    ELSE {IF ok THEN fresh ELSE None : ok \in ConnectOutcomes}

\* ---- QuicConnection::get_connection ----------------------------------------
\* line 71: load of last_stable_id
GcLoad(t) ==
    /\ pc[t] = "gc_load"
    /\ LET c == self_conn[t] IN
       /\ l_last' = [l_last EXCEPT ![t] = last_stable_id[c]]
       /\ gc_bad' = [gc_bad EXCEPT ![t] =
              IF connection[c] # None /\ connection[c] \in reported[c]
              THEN connection[c] ELSE 0]
    /\ pc' = [pc EXCEPT ![t] = "gc_read"]
    /\ UNCHANGED <<connVars, poolVars, self_conn, caller, l_conn, ret,
                   budget, todo, result, reported, none_connects_done, timeouts_seen,
                   resets_seen, gc_connected, released>>
    /\ UNCHANGED loopVars

\* where the match of line 73 goes for the session read and the marker loaded
ReadBranch(conn, last) ==
    IF conn = None THEN "gc_connect_none"
    ELSE IF conn = last THEN "gc_wlock"
    ELSE "gc_ret"

\* line 72: clone of the session under the read lock, and the match on it
GcRead(t) ==
    /\ pc[t] = "gc_read"
    /\ LET c == self_conn[t]
           conn == connection[c]
           br == ReadBranch(conn, l_last[t]) IN
       /\ wlock[c] = 0
       \* the session read is kept by the paths that go on to lock or connect;
       \* the marker loaded is not used after the match
       /\ l_conn' = [l_conn EXCEPT ![t] = IF br = "gc_ret" THEN None ELSE conn]
       /\ l_last' = [l_last EXCEPT ![t] = 0]
       /\ pc' = [pc EXCEPT ![t] = br]
       /\ ret' = [ret EXCEPT ![t] = IF br = "gc_ret" THEN conn ELSE @]
    /\ UNCHANGED <<connVars, poolVars, self_conn, caller, budget, todo,
                   histVars>>
    /\ UNCHANGED loopVars

\* faulty variant: the session re-read under the lock is not compared
RecheckAlwaysReconnect(installed, current_stable_id) ==
    IF installed = None THEN "panic" ELSE "reconnect"

\* what the holder of the write lock does with the session it re-reads
\* (lines 79-83): "panic", "replaced" or "reconnect"
RecheckBranch(installed, current_stable_id) ==
    IF installed = None THEN "panic"
    ELSE IF installed # current_stable_id THEN "replaced"
    ELSE "reconnect"

\* lines 78-83: write lock, expect, double check
GcWriteLock(t) ==
    /\ pc[t] = "gc_wlock"
    /\ LET c == self_conn[t]
           br == RecheckBranch(connection[c], l_conn[t]) IN
       /\ wlock[c] = 0
       /\ wlock' = [wlock EXCEPT ![c] = IF br = "reconnect" THEN t ELSE 0]
       /\ pc' = [pc EXCEPT ![t] =
              CASE br = "panic" -> "panicked"
                [] br = "replaced" -> "gc_ret"
                [] OTHER -> "gc_connect_stale"]
       /\ ret' = [ret EXCEPT ![t] = IF br = "replaced" THEN connection[c] ELSE @]
       \* a panicking task unwinds: its locals and the permit it holds are dropped
       /\ IF br = "panic"
          THEN /\ transactions_in_sending_semaphore' =
                     [k \in Conns |->
                        IF k = permit[t]
                        THEN AddPermit(transactions_in_sending_semaphore[k])
                        ELSE transactions_in_sending_semaphore[k]]
               /\ permit' = [permit EXCEPT ![t] = 0]
               /\ self_conn' = [self_conn EXCEPT ![t] = 0]
               /\ caller' = [caller EXCEPT ![t] = "none"]
               /\ gc_bad' = [gc_bad EXCEPT ![t] = 0]
               /\ result' = [result EXCEPT ![t] =
                      IF caller[t] = "send" THEN "panic" ELSE @]
          ELSE UNCHANGED <<transactions_in_sending_semaphore, permit, self_conn,
                           caller, gc_bad, result>>
       \* current_stable_id (line 76) stays in scope up to the return
       /\ l_conn' = [l_conn EXCEPT ![t] = IF br = "panic" THEN None ELSE @]
       /\ UNCHANGED l_last
    /\ UNCHANGED <<connection, last_stable_id, timeout_counters,
                   has_connected_once, exit_signal, next_id, mock, sel,
                   budget, todo, reported, none_connects_done, timeouts_seen,
                   resets_seen, gc_connected, released>>
    /\ UNCHANGED loopVars

\* faulty variant: the outcome of the connect is installed, a failure included
StaleInstallOutcome(new_conn, installed) == new_conn

\* line 84-91: connect on the stale path, write lock held; only a new session
\* is installed
StaleInstall(new_conn, installed) ==
    IF new_conn # None THEN new_conn ELSE installed

GcConnectStale(t) ==
    /\ pc[t] = "gc_connect_stale"
    /\ LET c == self_conn[t] IN
       \E new_conn \in ConnectResults(connection_params.connection_retry_count, exit_signal,
                                        next_id[c]) :
          /\ new_conn # None => next_id[c] <= MaxSessions
          /\ gc_connected' = [gc_connected EXCEPT ![t] = TRUE]
          /\ connection' = [connection EXCEPT ![c] = StaleInstall(new_conn, @)]
          /\ next_id' = [next_id EXCEPT ![c] =
                 IF new_conn # None THEN @ + 1 ELSE @]
          /\ ret' = [ret EXCEPT ![t] = new_conn]
          /\ wlock' = [wlock EXCEPT ![c] = 0]
          /\ pc' = [pc EXCEPT ![t] = "gc_ret"]
    /\ UNCHANGED <<last_stable_id, timeout_counters, has_connected_once,
                   exit_signal, mock, poolVars, self_conn, caller, l_last,
                   l_conn, budget, todo, result, reported, none_connects_done,
                   timeouts_seen, resets_seen, gc_bad, released>>
    /\ UNCHANGED loopVars

\* line 98: connect when no session was read, no lock held
GcConnectNone(t) ==
    /\ pc[t] = "gc_connect_none"
    /\ LET c == self_conn[t] IN
       \E new_conn \in ConnectResults(connection_params.connection_retry_count, exit_signal,
                                        next_id[c]) :
          /\ new_conn # None => next_id[c] <= MaxSessions
          /\ gc_connected' = [gc_connected EXCEPT ![t] = TRUE]
          /\ next_id' = [next_id EXCEPT ![c] =
                 IF new_conn # None THEN @ + 1 ELSE @]
          /\ l_conn' = [l_conn EXCEPT ![t] = new_conn]
          /\ none_connects_done' = [none_connects_done EXCEPT ![c] = TRUE]
          /\ pc' = [pc EXCEPT ![t] = "gc_install"]
    /\ UNCHANGED <<connection, last_stable_id, timeout_counters,
                   has_connected_once, exit_signal, wlock, mock, poolVars,
                   self_conn, caller, l_last, ret, budget, todo, result, reported,
                   timeouts_seen, resets_seen, gc_bad, released>>
    /\ UNCHANGED loopVars

\* line 99: the result of the connect is written under the write lock
GcInstall(t) ==
    /\ pc[t] = "gc_install"
    /\ LET c == self_conn[t] IN
       /\ wlock[c] = 0
       /\ connection' = [connection EXCEPT ![c] = l_conn[t]]
    /\ pc' = [pc EXCEPT ![t] = "gc_flag"]
    /\ UNCHANGED <<last_stable_id, timeout_counters, has_connected_once,
                   exit_signal, wlock, next_id, mock, poolVars, localVars,
                   budget, todo, histVars>>
    /\ UNCHANGED loopVars

\* faulty variant: the flag stores whether the connect succeeded
GcFlagOnSuccess(t) ==
    /\ pc[t] = "gc_flag"
    /\ has_connected_once' =
           [has_connected_once EXCEPT ![self_conn[t]] = l_conn[t] # None]
    /\ ret' = [ret EXCEPT ![t] = l_conn[t]]
    /\ l_conn' = [l_conn EXCEPT ![t] = None]
    /\ pc' = [pc EXCEPT ![t] = "gc_ret"]
    /\ UNCHANGED <<connection, last_stable_id, timeout_counters, exit_signal,
                   wlock, next_id, mock, poolVars, self_conn, caller, l_last,
                   budget, todo, histVars>>
    /\ UNCHANGED loopVars

\* line 100-101: has_connected_once.store(true), return connection
GcFlag(t) ==
    /\ pc[t] = "gc_flag"
    /\ has_connected_once' = [has_connected_once EXCEPT ![self_conn[t]] = TRUE]
    /\ ret' = [ret EXCEPT ![t] = l_conn[t]]
    /\ l_conn' = [l_conn EXCEPT ![t] = None]
    /\ pc' = [pc EXCEPT ![t] = "gc_ret"]
    /\ UNCHANGED <<connection, last_stable_id, timeout_counters, exit_signal,
                   wlock, next_id, mock, poolVars, self_conn, caller, l_last,
                   budget, todo, histVars>>
    /\ UNCHANGED loopVars

\* faulty variant: a failed pre-warming connect is reported as an error
PooledResultNeedsSession(permit_ok, session) ==
    IF permit_ok /\ session # None THEN "holding" ELSE "gp_err"

\* ---- QuicConnectionPool::get_pooled_connection, lines 244-245 -----------
\* the guard is built from the permit won by select_all
PooledResult(permit_ok, session) ==
    IF permit_ok THEN "holding" ELSE "gp_err"

\* ---- return of get_connection to its caller --------------------------------
\* send_transaction, line 117: Some(connection) opens a stream, None breaks
GcReturn(t) ==
    /\ pc[t] = "gc_ret"
    /\ pc' = [pc EXCEPT ![t] =
           CASE caller[t] = "send" ->
                    IF ret[t] # None THEN "st_open" ELSE "st_ret"
             [] caller[t] = "pool" -> PooledResult(permit[t] # 0, ret[t])
             [] OTHER -> "idle"]
    /\ l_conn' = [l_conn EXCEPT ![t] = IF caller[t] = "send" THEN ret[t] ELSE None]
    /\ result' = [result EXCEPT ![t] =
           IF caller[t] = "send" /\ ret[t] = None THEN "noconn" ELSE @]
    /\ self_conn' = [self_conn EXCEPT ![t] = IF caller[t] = "direct" THEN 0 ELSE @]
    /\ caller' = [caller EXCEPT ![t] = "none"]
    /\ l_last' = [l_last EXCEPT ![t] = 0]
    /\ ret' = [ret EXCEPT ![t] = None]
    /\ gc_bad' = [gc_bad EXCEPT ![t] = 0]
    /\ gc_connected' = [gc_connected EXCEPT ![t] = FALSE]
    /\ ops' = [ops EXCEPT ![t].open_unistream =
           IF caller[t] = "send" /\ ret[t] # None THEN @ + 1 ELSE @]
    /\ iter' = [iter EXCEPT ![t] =
           IF caller[t] = "send" /\ ret[t] = None THEN 0 ELSE @]
    /\ UNCHANGED <<connVars, poolVars, budget, todo, reported,
                   none_connects_done, timeouts_seen, resets_seen, released,
                   connection_params>>

\* a task calls get_connection on a Connection it has a handle of
CallGetConnection(t, c) ==
    /\ pc[t] = "idle"
    /\ budget > 0
    /\ budget' = budget - 1
    /\ MayCall(t, "get_connection")
    /\ todo' = [todo EXCEPT ![t] = Advance(@)]
    /\ pc' = [pc EXCEPT ![t] = "gc_load"]
    /\ caller' = [caller EXCEPT ![t] = "direct"]
    /\ self_conn' = [self_conn EXCEPT ![t] = c]
    /\ UNCHANGED <<connVars, poolVars, l_last, l_conn, ret, histVars>>
    /\ UNCHANGED loopVars

\* ---- QuicConnection::send_transaction --------------------------------------
\* faulty variant: the exit flag is not looked at
LoopTopNoExit(retry_count, exit) ==
    IF retry_count = 0 THEN "skip" ELSE "get_connection"

\* lines 108-115: what the top of the loop does: "skip" when the range is
\* empty, "exit" when the flag is set, else "get_connection"
LoopTop(retry_count, exit) ==
    IF retry_count = 0 THEN "skip"
    ELSE IF exit THEN "exit"
    ELSE "get_connection"

\* lines 106-115: the call, up to the call of get_connection or the return
CallSend(t, c) ==
    /\ budget > 0
    /\ budget' = budget - 1
    /\ MayCall(t, "send")
    /\ todo' = [todo EXCEPT ![t] = Advance(@)]
    /\ self_conn' = [self_conn EXCEPT ![t] = c]
    /\ LET n == connection_params.connection_retry_count
           top == LoopTop(n, exit_signal) IN
       /\ pc' = [pc EXCEPT ![t] =
              IF top = "get_connection" THEN "gc_load" ELSE "st_ret"]
       /\ result' = [result EXCEPT ![t] = IF top = "exit" THEN "exit" ELSE "none"]
       /\ caller' = [caller EXCEPT ![t] =
              IF top = "get_connection" THEN "send" ELSE @]
       /\ iter' = [iter EXCEPT ![t] = IF top = "get_connection" THEN n - 1 ELSE 0]
       /\ ops' = [ops EXCEPT ![t] =
              [NoOps EXCEPT !.get_connection =
                  IF top = "get_connection" THEN 1 ELSE 0]]
    /\ UNCHANGED connection_params
    /\ UNCHANGED <<connVars, poolVars, l_last, l_conn, ret,
                   reported, none_connects_done, timeouts_seen, resets_seen,
                   gc_bad, gc_connected, released>>

\* a send on a Connection handle kept outside of any guard
SendDirect(t, c) ==
    /\ pc[t] = "idle"
    /\ CallSend(t, c)

\* a send through the guard the task holds
SendPooled(t) ==
    /\ pc[t] = "holding"
    /\ CallSend(t, permit[t])

\* faulty variant: connection errors are counted as timeouts
TimeoutCountErrors(outcome, n) == IF outcome # "ok" THEN n + 1 ELSE n

\* lines 137-142 and 145-150: the match on the outcome of a stream operation
TimeoutCount(outcome, n) == IF outcome = "timeout" THEN n + 1 ELSE n

\* faulty variant: a timeout marks the session as well
StableIdAfterTimeout(outcome, current_stable_id, last) ==
    IF outcome \in {"retry", "timeout"} THEN current_stable_id ELSE last

\* lines 152-155: the marker is written when do_retry is set
StableIdAfter(outcome, current_stable_id, last) ==
    IF outcome = "retry" THEN current_stable_id ELSE last

\* effect of the outcome o of open_unistream or write_all on the Connection
Classify(t, o) ==
    LET c == self_conn[t] IN
    /\ o = "timeout" => timeout_counters[c] < MaxTimeouts
    /\ timeout_counters' = [timeout_counters EXCEPT ![c] = TimeoutCount(o, @)]
    /\ timeouts_seen' = [timeouts_seen EXCEPT ![c] =
           IF o = "timeout" /\ ~resets_seen[c] THEN @ + 1 ELSE @]
    /\ last_stable_id' = [last_stable_id EXCEPT ![c] =
           StableIdAfter(o, l_conn[t], @)]
    /\ reported' = [reported EXCEPT ![c] =
           IF o = "retry" THEN @ \cup {l_conn[t]} ELSE @]

\* faulty variant: a connection error with retry = true starts the next iteration
AfterBodyRetry(do_retry) ==
    IF do_retry THEN "continue" ELSE "break"

\* lines 152-166: the end of the loop body when a session was obtained
AfterBody(do_retry) ==
    IF do_retry THEN "break"           \* line 155
    ELSE IF ~do_retry THEN "break"     \* line 165
    ELSE "continue"

\* where a call goes when a stream operation has failed or the write is done:
\* out of the loop, or to the top of the next iteration (line 109) if one is left
LoopEnd(t, o) ==
    IF AfterBody(o = "retry") = "continue" /\ iter[t] > 0 /\ ~exit_signal
    THEN "gc_load" ELSE "st_ret"

LoopEndVars(t, o) ==
    LET again == LoopEnd(t, o) = "gc_load" IN
    /\ iter' = [iter EXCEPT ![t] = IF again THEN @ - 1 ELSE 0]
    /\ ops' = [ops EXCEPT ![t].get_connection = IF again THEN @ + 1 ELSE @]
    /\ UNCHANGED connection_params

\* lines 119-124, 145-151: open_unistream completes
StOpen(t) ==
    /\ pc[t] = "st_open"
    /\ \E o \in StreamOutcomes :
          /\ Classify(t, o)
          /\ pc' = [pc EXCEPT ![t] = IF o = "ok" THEN "st_write" ELSE LoopEnd(t, o)]
          /\ result' = [result EXCEPT ![t] = IF o = "ok" THEN @ ELSE o]
          /\ l_conn' = [l_conn EXCEPT ![t] = IF o = "ok" THEN @ ELSE None]
          /\ IF o = "ok"
             THEN /\ ops' = [ops EXCEPT ![t].write_all = @ + 1]
                  /\ UNCHANGED <<connection_params, iter>>
             ELSE LoopEndVars(t, o)
    /\ UNCHANGED <<connection, has_connected_once, exit_signal, wlock, next_id,
                   mock, poolVars, self_conn, caller, l_last, ret, budget, todo, none_connects_done, resets_seen, gc_bad,
                   gc_connected, released>>

\* lines 126-143: write_all completes
StWrite(t) ==
    /\ pc[t] = "st_write"
    /\ \E o \in StreamOutcomes :
          /\ Classify(t, o)
          /\ pc' = [pc EXCEPT ![t] = LoopEnd(t, o)]
          /\ result' = [result EXCEPT ![t] = IF o = "ok" THEN "delivered" ELSE o]
          /\ l_conn' = [l_conn EXCEPT ![t] = None]
          /\ LoopEndVars(t, o)
    /\ UNCHANGED <<connection, has_connected_once, exit_signal, wlock, next_id,
                   mock, poolVars, self_conn, caller, l_last, ret, budget, todo, none_connects_done, resets_seen, gc_bad,
                   gc_connected, released>>

\* line 168: send_transaction returns to its caller
StReturn(t) ==
    /\ pc[t] = "st_ret"
    /\ pc' = [pc EXCEPT ![t] = IF permit[t] # 0 THEN "holding" ELSE "idle"]
    /\ self_conn' = [self_conn EXCEPT ![t] = permit[t]]
    /\ result' = [result EXCEPT ![t] = "none"]
    /\ ops' = [ops EXCEPT ![t] = NoOps]
    /\ UNCHANGED <<connVars, poolVars, caller, l_last, l_conn,
                   ret, budget, todo, reported, none_connects_done,
                   timeouts_seen, resets_seen, gc_bad, gc_connected, released,
                   connection_params, iter>>

\* lines 174-176
ResetTimeouts(c) ==
    /\ timeout_counters' = [timeout_counters EXCEPT ![c] = 0]
    /\ resets_seen' = [resets_seen EXCEPT ![c] = @ \/ timeout_counters[c] # 0]
    /\ timeouts_seen' = [timeouts_seen EXCEPT ![c] =
           IF timeout_counters[c] # 0 THEN 0 ELSE @]
    /\ UNCHANGED <<connection, last_stable_id, has_connected_once, exit_signal,
                   wlock, next_id, mock, poolVars, pc, localVars, budget, todo,
                   result, reported, none_connects_done, gc_bad,
                   gc_connected, released>>
    /\ UNCHANGED loopVars

\* the owner of the exit flag sets it
SetExit ==
    /\ ~exit_signal
    /\ exit_signal' = TRUE
    /\ UNCHANGED <<connection, last_stable_id, timeout_counters,
                   has_connected_once, wlock, next_id, mock, poolVars, pc,
                   localVars, budget, todo, histVars>>
    /\ UNCHANGED loopVars

\* ---- QuicConnectionPool::get_pooled_connection -----------------------------
\* lines 231-235: select_all over one acquire_owned future per semaphore
CallGetPooled(t) ==
    /\ pc[t] = "idle"
    /\ permit[t] = 0
    /\ budget > 0
    /\ budget' = budget - 1
    /\ MayCall(t, "get_pooled")
    /\ todo' = [todo EXCEPT ![t] = Advance(@)]
    /\ pc' = [pc EXCEPT ![t] = "gp_select"]
    /\ sel' = [sel EXCEPT ![t] = 1]
    /\ UNCHANGED <<connVars, transactions_in_sending_semaphore, permit,
                   localVars, histVars>>
    /\ UNCHANGED loopVars

\* select_all polls its futures in order and completes with the first that
\* is ready; a pending future stays queued on its semaphore
\* faulty variant: only the first semaphore is waited for
NextFutureNone(c) == 0

NextFuture(c) == IF c = nb_connection THEN 0 ELSE c + 1

GpPoll(t) ==
    /\ pc[t] = "gp_select"
    /\ LET c == sel[t]
           s == transactions_in_sending_semaphore[c]
           r == PollAcquire(s, t) IN
       /\ transactions_in_sending_semaphore' =
              [transactions_in_sending_semaphore EXCEPT ![c] = AfterPoll(s, t)]
       /\ IF r = "pending"
          THEN /\ sel' = [sel EXCEPT ![t] = NextFuture(c)]
               /\ pc' = [pc EXCEPT ![t] =
                      IF NextFuture(c) = 0 THEN "gp_pending" ELSE "gp_select"]
               /\ UNCHANGED permit
          ELSE /\ permit' = [permit EXCEPT ![t] = IF r = "ready" THEN c ELSE 0]
               /\ pc' = [pc EXCEPT ![t] = "gp_drop"]
               /\ UNCHANGED sel
    /\ UNCHANGED <<connVars, localVars, budget, todo, histVars>>
    /\ UNCHANGED loopVars

\* the task suspended in select_all is woken when one of its waiters was
\* handed a permit
GpWake(t) ==
    /\ pc[t] = "gp_pending"
    /\ \E c \in Conns : t \in transactions_in_sending_semaphore[c].assigned
    /\ pc' = [pc EXCEPT ![t] = "gp_select"]
    /\ sel' = [sel EXCEPT ![t] = 1]
    /\ UNCHANGED <<connVars, transactions_in_sending_semaphore, permit,
                   localVars, budget, todo, histVars>>
    /\ UNCHANGED loopVars

\* faulty variant: every future of select_all is dropped, the one that won included
DropOthersAndWinner(sems, index, t) ==
    [c \in Conns |->
        IF c = index THEN AddPermit(sems[c]) ELSE DropAcquire(sems[c], t)]

\* faulty variant: the other Acquire futures are kept alive
DropOthersKeep(sems, index, t) == sems

\* line 237: drop(_others), the remaining Acquire futures are dropped
DropOthers(sems, index, t) ==
    [c \in Conns |-> IF c = index THEN sems[c] ELSE DropAcquire(sems[c], t)]

GpDropOthers(t) ==
    /\ pc[t] = "gp_drop"
    /\ transactions_in_sending_semaphore' =
           DropOthers(transactions_in_sending_semaphore, sel[t], t)
    /\ pc' = [pc EXCEPT ![t] = "gp_check"]
    /\ self_conn' = [self_conn EXCEPT ![t] = sel[t]]
    /\ sel' = [sel EXCEPT ![t] = 0]
    /\ UNCHANGED <<connVars, permit, caller, l_last, l_conn, ret,
                   budget, todo, histVars>>
    /\ UNCHANGED loopVars

\* faulty variant: the guard is returned without looking at the flag
NeedsPrewarmNever(flag) == FALSE

\* lines 240-245: pre-warm a connection that has never connected
NeedsPrewarm(flag) == ~flag

GpCheck(t) ==
    /\ pc[t] = "gp_check"
    /\ IF NeedsPrewarm(has_connected_once[self_conn[t]])
       THEN /\ pc' = [pc EXCEPT ![t] = "gc_load"]
            /\ caller' = [caller EXCEPT ![t] = "pool"]
       ELSE /\ pc' = [pc EXCEPT ![t] = PooledResult(permit[t] # 0, None)]
            /\ UNCHANGED caller
    /\ UNCHANGED <<connVars, poolVars, self_conn, l_last, l_conn, ret,
                   budget, todo, histVars>>
    /\ UNCHANGED loopVars

\* faulty variant: the permit is forgotten instead of released
DropGuardLeak(t) ==
    /\ pc[t] = "holding"
    /\ permit' = [permit EXCEPT ![t] = 0]
    /\ self_conn' = [self_conn EXCEPT ![t] = 0]
    /\ pc' = [pc EXCEPT ![t] = "idle"]
    /\ released' = TRUE
    /\ MayCall(t, "drop")
    /\ todo' = [todo EXCEPT ![t] = Advance(@)]
    /\ UNCHANGED <<connVars, transactions_in_sending_semaphore, sel, caller,
                   l_last, l_conn, ret, budget, result, reported,
                   none_connects_done, timeouts_seen, resets_seen, gc_bad,
                   gc_connected>>
    /\ UNCHANGED loopVars

\* the PooledConnection is dropped: its permit goes back to its semaphore
DropGuard(t) ==
    /\ pc[t] = "holding"
    /\ transactions_in_sending_semaphore' =
           [transactions_in_sending_semaphore EXCEPT ![permit[t]] = AddPermit(@)]
    /\ permit' = [permit EXCEPT ![t] = 0]
    /\ self_conn' = [self_conn EXCEPT ![t] = 0]
    /\ pc' = [pc EXCEPT ![t] = "idle"]
    /\ released' = TRUE
    /\ MayCall(t, "drop")
    /\ todo' = [todo EXCEPT ![t] = Advance(@)]
    /\ UNCHANGED <<connVars, sel, caller, l_last, l_conn, ret, budget, result, reported, none_connects_done,
                   timeouts_seen, resets_seen, gc_bad, gc_connected>>
    /\ UNCHANGED loopVars

\* ---- specifications ---------------------------------------------------------
\* the steps of get_connection up to its result
GcBody(t) ==
    \/ GcLoad(t) \/ GcRead(t) \/ GcWriteLock(t) \/ GcConnectStale(t)
    \/ GcConnectNone(t) \/ GcInstall(t) \/ GcFlag(t)

GetConnectionStep(t) == GcBody(t) \/ GcReturn(t)

\* the stream operations of send_transaction
SendBody(t) == StOpen(t) \/ StWrite(t)

SendStep(t) == SendBody(t) \/ StReturn(t)

PoolStep(t) ==
    \/ CallGetPooled(t) \/ GpPoll(t) \/ GpWake(t) \/ GpDropOthers(t)
    \/ GpCheck(t) \/ SendPooled(t) \/ DropGuard(t)

\* tasks using the pool, with the exit flag and the timeout reset
Next ==
    \/ \E t \in Tasks : PoolStep(t) \/ GetConnectionStep(t) \/ SendStep(t)
    \/ \E c \in Conns : ResetTimeouts(c)
    \/ SetExit

Spec == Init /\ [][Next]_vars

\* a call that has its result returns before any other task takes a step: the
\* return reads and writes nothing that is shared
Returning == \E t \in Tasks : pc[t] \in {"gc_ret", "st_ret"}

\* tasks calling get_connection and send_transaction on one Connection
NextConn ==
    \/ \E t \in Tasks : GcReturn(t) \/ StReturn(t)
    \/ /\ ~Returning
       /\ \/ \E t \in 1..ConnTasks : CallGetConnection(t, 1) \/ SendDirect(t, 1)
          \/ \E t \in Tasks : GcBody(t) \/ SendBody(t)
          \/ ResetTimeouts(1)
          \/ SetExit

SpecConn == Init /\ [][NextConn]_vars


\* N callers of get_pooled_connection, no guard is ever dropped
InitAcquire ==
    /\ InitConn /\ InitPool /\ InitTasks /\ InitHist
    /\ connection_params = [connection_retry_count |-> connection_retry_count]
    /\ mock = "any"
    /\ budget = NumTasks
    /\ \E n \in 1..NumTasks :
          todo = [t \in Tasks |-> IF t <= n THEN <<"get_pooled">> ELSE <<>>]

AcquireStep(t) ==
    \/ CallGetPooled(t) \/ GpPoll(t) \/ GpDropOthers(t) \/ GpCheck(t)
    \/ GcLoad(t) \/ GcRead(t) \/ GcConnectNone(t) \/ GcInstall(t)
    \/ GcFlag(t) \/ GcReturn(t)

NextAcquire == \E t \in Tasks : AcquireStep(t)

\* the runtime runs every task that is able to make progress
SpecAcquire ==
    /\ InitAcquire /\ [][NextAcquire]_vars
    /\ \A t \in Tasks : WF_vars(AcquireStep(t))

\* every task acquires a guard, sends once through it and drops it; the
\* transport always succeeds
InitSenders ==
    /\ InitConn /\ InitPool /\ InitTasks /\ InitHist
    /\ connection_params = [connection_retry_count |-> connection_retry_count]
    /\ mock = "ok"
    /\ budget = 2 * NumTasks
    /\ todo = [t \in Tasks |-> <<"get_pooled", "send", "drop">>]

SenderStep(t) ==
    \/ CallGetPooled(t) \/ GpPoll(t) \/ GpWake(t) \/ GpDropOthers(t)
    \/ GpCheck(t) \/ SendPooled(t) \/ DropGuard(t)
    \/ GcLoad(t) \/ GcRead(t) \/ GcConnectNone(t) \/ GcInstall(t)
    \/ GcFlag(t) \/ GcReturn(t)
    \/ SendStep(t)

NextSenders == \E t \in Tasks : SenderStep(t)

SpecSenders ==
    /\ InitSenders /\ [][NextSenders]_vars
    /\ \A t \in Tasks : WF_vars(SenderStep(t))

\* senders on one Connection over a transport that answers the first stream
\* operation with ConnectionError{retry: true} and succeeds afterwards
InitRetryOnce ==
    /\ InitConn /\ InitPool /\ InitTasks /\ InitHist
    /\ connection_params = [connection_retry_count |-> connection_retry_count]
    /\ mock = "retry_once"
    /\ budget = MaxCalls
    /\ todo = [t \in Tasks |-> <<"any">>]

NextRetryOnce ==
    \/ \E t \in 1..ConnTasks : SendDirect(t, 1)
    \/ \E t \in Tasks : GetConnectionStep(t) \/ SendStep(t)

SpecRetryOnce == InitRetryOnce /\ [][NextRetryOnce]_vars

\* senders on one Connection, for every connection_retry_count up to
\* MaxRetryCount
InitLoop ==
    /\ InitConn /\ InitPool /\ InitTasks /\ InitHist
    /\ \E n \in 0..MaxRetryCount :
          connection_params = [connection_retry_count |-> n]
    /\ mock = "any"
    /\ budget = MaxCalls
    /\ todo = [t \in Tasks |-> <<"any">>]

NextLoop ==
    \/ \E t \in Tasks : GcReturn(t) \/ StReturn(t)
    \/ /\ ~Returning
       /\ \/ \E t \in 1..ConnTasks : SendDirect(t, 1)
          \/ \E t \in Tasks : GcBody(t) \/ SendBody(t)
          \/ SetExit

SpecLoop == InitLoop /\ [][NextLoop]_vars

\* callers of the pool next to tasks that call get_connection on a handle of
\* the pool's first Connection; no send is made, so that last_stable_id stays
\* 0 and get_connection never takes the stale path
NextPrewarm ==
    \/ \E t \in Tasks : GcReturn(t)
    \/ /\ ~Returning
       /\ \/ \E t \in Tasks :
                \/ CallGetPooled(t) \/ GpPoll(t) \/ GpWake(t)
                \/ GpDropOthers(t) \/ GpCheck(t) \/ DropGuard(t)
                \/ GcLoad(t) \/ GcRead(t) \/ GcConnectNone(t)
                \/ GcInstall(t) \/ GcFlag(t)
          \/ \E t \in 1..ConnTasks : CallGetConnection(t, 1)
          \/ SetExit

SpecPrewarm == Init /\ [][NextPrewarm]_vars


\* ---- properties ---------------------------------------------------------------
Holders(c) == {t \in Tasks : permit[t] = c}

Capacity == nb_connection * max_number_of_unistream_connection

Suspended(t) ==
    /\ pc[t] = "gp_pending"
    /\ \A c \in Conns : t \notin transactions_in_sending_semaphore[c].assigned

\* C1: the permits held for a connection (by guards, and by calls of
\* get_pooled_connection that have won their permit) never exceed
\* max_number_of_unistream_connection
C1_GuardsBounded ==
    \A c \in Conns :
       Cardinality(Holders(c)) <= max_number_of_unistream_connection

\* a connection is used to capacity while another caller is suspended
C1_Witness ==
    \E c \in Conns, t \in Tasks :
       /\ Cardinality(Holders(c)) = max_number_of_unistream_connection
       /\ \E u \in Holders(c) : pc[u] = "holding"
       /\ Suspended(t)

\* C2: with N callers of get_pooled_connection and no guard ever dropped, no
\* caller is suspended while a semaphore has a free permit, and eventually
\* min(N, nb_connection * max_number_of_unistream_connection) callers hold a
\* guard: all N of them when N is within the total capacity
Callers == {t \in Tasks : todo[t] # <<>> \/ pc[t] # "idle"}

Min(a, b) == IF a <= b THEN a ELSE b

C2_AcquireWithoutRelease ==
    /\ [](\A t \in Tasks : Suspended(t) =>
             \A c \in Conns : transactions_in_sending_semaphore[c].permits = 0)
    /\ <>(Cardinality({t \in Tasks : pc[t] = "holding"})
             = Min(Cardinality(Callers), Capacity))

\* as many callers as the pool has permits all hold a guard, one of them on a
\* connection whose pre-warming connect failed
C2_Witness ==
    /\ Cardinality(Callers) = Capacity
    /\ \A t \in Callers : pc[t] = "holding"
    /\ \E c \in Conns : connection[c] = None

\* C3: senders (acquire, send, drop) over a transport that always succeeds:
\* never more guards than the pool has permits, a caller beyond the capacity
\* gets its permit only after a guard was dropped, every send delivers and
\* every sender eventually completes
Acquired == {t \in Tasks : permit[t] # 0 \/ todo[t] = <<>>}

C3_SendersComplete ==
    /\ [](Cardinality({t \in Tasks : permit[t] # 0}) <= Capacity)
    /\ [](Cardinality(Acquired) > Capacity => released)
    /\ [](\A t \in Tasks : pc[t] = "st_ret" => result[t] = "delivered")
    /\ <>(\A t \in Tasks : pc[t] = "idle" /\ todo[t] = <<>>)

\* every permit is taken by a sender and one more sender is suspended
C3_Witness ==
    /\ Cardinality({t \in Tasks : permit[t] # 0}) = Capacity
    /\ \E t \in Tasks : Suspended(t)
    /\ ~released


\* C4: a get_connection call that starts when the installed session has
\* already been reported (a send_transaction stored its id after a
\* connection error with retry = true) does not hand that session out again:
\* it reconnects, or returns the replacement another caller installed
C4_ReportedSessionReplaced ==
    \A t \in Tasks :
       (pc[t] = "gc_ret" /\ gc_bad[t] # 0) =>
           (gc_connected[t] \/ ret[t] # gc_bad[t])

\* C5: over the transport that answers the first stream operation with
\* ConnectionError{retry: true} and succeeds afterwards, a send_transaction
\* call returns with the payload delivered and the timeout counter at 0
C5_DeliveredAfterRetry ==
    \A t \in Tasks :
       pc[t] = "st_ret" =>
          (result[t] = "delivered" /\ timeout_counters[self_conn[t]] = 0)

\* C6: the timeout counter changes only by +1 in a step in which the
\* transport answers a stream open or a write with a timeout, or to 0 in a
\* reset_timeouts step; every timeout is counted; without a reset the counter
\* equals the number of timeouts the transport answered
TimeoutStep(c) ==
    \E t \in Tasks :
       /\ pc[t] \in {"st_open", "st_write"} /\ self_conn[t] = c
       /\ pc'[t] = "st_ret" /\ result'[t] = "timeout"

ResetStep(c) ==
    /\ timeout_counters'[c] = 0
    /\ pc' = pc /\ localVars' = localVars
    /\ connection' = connection /\ last_stable_id' = last_stable_id

C6_TimeoutCounter ==
    /\ [](\A c \in Conns :
             ~resets_seen[c] => timeout_counters[c] = timeouts_seen[c])
    /\ [][\A c \in Conns :
             /\ TimeoutStep(c) => timeout_counters'[c] = timeout_counters[c] + 1
             /\ timeout_counters'[c] # timeout_counters[c] =>
                   (IF TimeoutStep(c)
                    THEN timeout_counters'[c] = timeout_counters[c] + 1
                    ELSE ResetStep(c))]_vars

\* two timeouts have been counted, after a connection error and a successful
\* send that left the counter alone
C6_Witness ==
    /\ timeout_counters[1] = 2
    /\ ~resets_seen[1]
    /\ reported[1] # {}

\* C7 as stated: no connect establishes a session and no stream open or write
\* starts in a state in which exit_signal is set
SessionEstablished(t) ==
    /\ pc[t] \in {"gc_connect_none", "gc_connect_stale"}
    /\ pc'[t] # pc[t]
    /\ next_id' # next_id

StreamStart(t) ==
    \/ pc[t] # "st_open" /\ pc'[t] = "st_open"
    \/ pc[t] # "st_write" /\ pc'[t] = "st_write"

SendCalled(t) ==
    /\ pc[t] \in {"idle", "holding"}
    /\ \/ pc'[t] = "st_ret"
       \/ pc'[t] = "gc_load" /\ caller'[t] = "send"

C8_HasConnectedOnce ==
    /\ [](\A c \in Conns : has_connected_once[c] => none_connects_done[c])
    /\ [][\A c \in Conns :
             has_connected_once[c] => has_connected_once'[c]]_vars

\* the flag is set although the latest no-session connect failed, after a
\* session had been reported and replaced
C8_Witness ==
    \E c \in Conns :
       /\ has_connected_once[c]
       /\ connection[c] = None
       /\ reported[c] # {}

\* C9: a timeout adds 1 to the counter, ends the call without delivery and
\* leaves last_stable_id and the installed session alone; as long as the
\* transport has answered no connection error with retry = true the marker
\* is 0 and no get_connection call is on the reconnect path
C9_TimeoutFrame ==
    /\ [](\A c \in Conns : reported[c] = {} =>
             /\ last_stable_id[c] = 0
             /\ \A t \in Tasks :
                   self_conn[t] = c =>
                      pc[t] \notin {"gc_wlock", "gc_connect_stale"})
    /\ [][\A c \in Conns : TimeoutStep(c) =>
             /\ timeout_counters'[c] = timeout_counters[c] + 1
             /\ last_stable_id' = last_stable_id
             /\ connection' = connection]_vars

\* after a timeout was counted, a get_connection call returns the installed
\* session without having called connect
C9_Witness ==
    \E t \in Tasks :
       /\ pc[t] = "gc_ret" /\ self_conn[t] = 1
       /\ timeout_counters[1] >= 1
       /\ reported[1] = {}
       /\ ~gc_connected[t]
       /\ ret[t] # None /\ ret[t] = connection[1]

\* C10: no semaphore is ever closed and no get_pooled_connection call ends
\* with an error
C10_NoPooledError ==
    /\ \A c \in Conns : ~transactions_in_sending_semaphore[c].closed
    /\ \A t \in Tasks : pc[t] # "gp_err"

\* a guard was returned for a connection whose pre-warming connect failed,
\* while another caller waits for a permit
C10_Witness ==
    \E t, u \in Tasks :
       /\ pc[t] = "holding"
       /\ has_connected_once[permit[t]] /\ connection[permit[t]] = None
       /\ Suspended(u)


\* C11: no send_transaction call ends by a panic: every call returns to its
\* caller, whatever the transport answers and whatever the other callers of
\* the same Connection do
C11_SendReturns ==
    \A t \in Tasks : result[t] # "panic"

\* C12: for one Connection at most one connect of the no-session path is in
\* flight, it runs with the write lock held, and no caller is about to store
\* the result of such a connect over a session another caller established
InitialConnects(c) ==
    {t \in Tasks : self_conn[t] = c /\ pc[t] = "gc_connect_none"}

C12_OneInitialConnect ==
    \A c \in Conns :
       /\ Cardinality(InitialConnects(c)) <= 1
       /\ \A t \in InitialConnects(c) : wlock[c] = t
       /\ \A t \in Tasks :
             (self_conn[t] = c /\ pc[t] = "gc_install") => connection[c] = None

\* C13: on the stale path at most one task at a time reconnects a Connection,
\* it does so holding the write lock, and a caller that finds under the lock
\* a session other than the one it read returns that session without calling
\* connect
Reconnecting(c) ==
    {t \in Tasks : self_conn[t] = c /\ pc[t] = "gc_connect_stale"}

FoundReplaced(t) ==
    /\ pc[t] = "gc_wlock" /\ pc'[t] # "gc_wlock"
    /\ connection[self_conn[t]] \notin {None, l_conn[t]}

C13_StaleReconnect ==
    /\ [](\A c \in Conns :
             /\ Cardinality(Reconnecting(c)) <= 1
             /\ \A t \in Reconnecting(c) : wlock[c] = t)
    /\ [][\A t \in Tasks : FoundReplaced(t) =>
             /\ pc'[t] = "gc_ret"
             /\ ret'[t] = connection[self_conn[t]]
             /\ ~gc_connected'[t]
             /\ next_id' = next_id /\ connection' = connection]_vars

\* a caller returns the replacement another caller installed while it waited
\* for the write lock
C13_Witness ==
    \E t \in Tasks :
       /\ pc[t] = "gc_ret" /\ ~gc_connected[t]
       /\ l_conn[t] # None
       /\ ret[t] \notin {None, l_conn[t]}

\* C14: the caller that reconnects on the stale path returns the session that
\* is installed when its connect has ended: the new session after a success,
\* none after a failure
Reconnected(t) == pc[t] = "gc_connect_stale" /\ pc'[t] = "gc_ret"

C14_ReconnectInstallsOutcome ==
    [][\A t \in Tasks :
          Reconnected(t) => ret'[t] = connection'[self_conn[t]]]_vars

\* C14 amended: the caller that reconnects on the stale path installs and
\* returns the new session when its connect succeeds; when the connect fails
\* it returns none and leaves the installed session in place
C14_ReconnectKeepsSessionOnFailure ==
    [][\A t \in Tasks : Reconnected(t) =>
          LET c == self_conn[t] IN
          IF ret'[t] # None
          THEN /\ connection'[c] = ret'[t]
               /\ ret'[t] = next_id[c] /\ ret'[t] # connection[c]
          ELSE /\ connection'[c] = connection[c]
               /\ connection[c] # None]_vars

\* a reconnect has failed: the call returns none and the session it found
\* stale is still installed
C14_Witness ==
    \E t \in Tasks :
       /\ pc[t] = "gc_ret" /\ gc_connected[t]
       /\ l_conn[t] # None
       /\ ret[t] = None
       /\ connection[self_conn[t]] = l_conn[t]

\* C15: a slot that holds a session holds a session in every later state,
\* and no caller finds the slot empty when it re-reads it under the write
\* lock (the expect of line 79 never fails)
C15_SessionNeverAbsent ==
    /\ [][\A c \in Conns :
             connection[c] # None => connection'[c] # None]_vars
    /\ [](\A t \in Tasks : pc[t] # "panicked")

\* C16: for every connection_retry_count, one send_transaction call invokes
\* get_connection at most once, opens at most one stream and writes at most
\* once; with connection_retry_count = 0 it invokes none of them
C16_OneAttemptPerCall ==
    \A t \in Tasks :
       /\ ops[t].get_connection <= 1
       /\ ops[t].open_unistream <= 1
       /\ ops[t].write_all <= 1
       /\ connection_params.connection_retry_count = 0 =>
             (ops[t] = NoOps /\ pc[t] \in {"idle", "st_ret"})

\* a call returns after a connection error with retry = true on its write,
\* with an iteration of the loop left
C16_Witness ==
    \E t \in Tasks :
       /\ pc[t] = "st_ret" /\ result[t] = "retry"
       /\ connection_params.connection_retry_count >= 2
       /\ ops[t] = [get_connection |-> 1, open_unistream |-> 1, write_all |-> 1]

\* C17: a send_transaction call that finds exit_signal set at the top of its
\* loop returns in that step, having invoked neither get_connection nor a
\* stream operation, and leaves the session, the lock, last_stable_id, the
\* timeout counter and has_connected_once as they were
FoundExit(t) ==
    /\ SendCalled(t)
    /\ exit_signal
    /\ connection_params.connection_retry_count > 0

C17_ExitReturnsUntouched ==
    /\ [][\A t \in Tasks : FoundExit(t) =>
             /\ pc'[t] = "st_ret" /\ result'[t] = "exit"
             /\ ops'[t] = NoOps
             /\ connection' = connection /\ wlock' = wlock
             /\ next_id' = next_id
             /\ last_stable_id' = last_stable_id
             /\ timeout_counters' = timeout_counters
             /\ has_connected_once' = has_connected_once]_vars
    /\ [](\A t \in Tasks :
             (pc[t] = "st_ret" /\ result[t] = "exit") =>
                 (exit_signal /\ ops[t] = NoOps))

\* a call has returned because of the flag on a Connection that has a session
\* installed and reported
C17_Witness ==
    \E t \in Tasks :
       /\ pc[t] = "st_ret" /\ result[t] = "exit"
       /\ connection[1] # None
       /\ last_stable_id[1] = connection[1]
       /\ has_connected_once[1]

\* C18: a guard is only returned for a Connection on which a connect of the
\* no-session path has completed, and a call that selects a Connection whose
\* has_connected_once is false runs get_connection on it before it returns
Selected(t) == pc[t] = "gp_check" /\ pc'[t] # "gp_check"

C18_GuardAfterConnect ==
    /\ [](\A t \in Tasks :
             pc[t] = "holding" => none_connects_done[permit[t]])
    /\ [][\A t \in Tasks :
             (Selected(t) /\ ~has_connected_once[self_conn[t]]) =>
                 (pc'[t] = "gc_load" /\ caller'[t] = "pool")]_vars

\* a guard was returned while has_connected_once is still false: the connect
\* was made by another caller that has installed its result and not yet set
\* the flag
C18_Witness ==
    \E t \in Tasks :
       /\ pc[t] = "holding"
       /\ ~has_connected_once[permit[t]]
       /\ \E u \in Tasks \ {t} :
             pc[u] = "gc_flag" /\ self_conn[u] = permit[t]

\* C19: the permits of a connection are conserved: those available, those
\* handed to a queued acquisition and those held by callers add up to
\* max_number_of_unistream_connection; a call that has returned holds the one
\* permit of the connection it returned and has no acquisition left on any
\* semaphore; when no permit is held and no call is acquiring, every
\* semaphore has all its permits available
Acquiring(t) == pc[t] \in {"gp_select", "gp_pending", "gp_drop"}

HasAcquisition(t, c) ==
    \/ t \in transactions_in_sending_semaphore[c].assigned
    \/ InSeq(transactions_in_sending_semaphore[c].waiters, t)

C19_PermitsConserved ==
    /\ \A c \in Conns :
          LET s == transactions_in_sending_semaphore[c] IN
          /\ s.permits + Cardinality(s.assigned) + Cardinality(Holders(c))
                = max_number_of_unistream_connection
          /\ (\A t \in Tasks : permit[t] = 0 /\ ~Acquiring(t)) =>
                s.permits = max_number_of_unistream_connection
    /\ \A t \in Tasks :
          /\ ~Acquiring(t) => \A c \in Conns : ~HasAcquisition(t, c)
          /\ pc[t] = "holding" =>
                (permit[t] \in Conns /\ self_conn[t] = permit[t])

\* every call the tasks may make has returned and every guard was dropped:
\* all permits are available again
C19_Witness ==
    /\ budget = 0 /\ released
    /\ \A t \in Tasks : pc[t] = "idle" /\ permit[t] = 0
    /\ \A c \in Conns :
          transactions_in_sending_semaphore[c].permits
             = max_number_of_unistream_connection

====
